---- MODULE Spec2Model ----
(***************************************************************************)
(* The cyclic, resource-constrained pipeline schedule built by             *)
(* run_simulation (schedule_optimization_v1.py) and by the module-level    *)
(* script schedule_optimization.py: the same loop in both files.           *)
(*                                                                         *)
(* Times and durations are integers (a number of time units); arithmetic   *)
(* on them is exact.  An interval of the schedule is a record              *)
(*   [name, phase, cycle, start, end, row]                                 *)
(* where <<name, phase, cycle>> stands for the label                       *)
(* f'{name} {phase} (Cycle {cycle})' of the 'task' key.                    *)
(***************************************************************************)
EXTENDS Integers, Sequences, FiniteSets, TLC

\* ------------------------------------------------------------------ bounds
\* durations are 0..MaxDur time units of DurUnit hours each
MaxDur == 2
DurUnit == 6
MaxDays == 2
MaxBioreactors == 2

\* ------------------------------------------------------- program constants
HoursPerDay == 24

StepNames == <<"A", "B">>

Durations == {k * DurUnit : k \in 0..MaxDur}
ShortDurations == {0, DurUnit}
SignedDurations == {-DurUnit, DurUnit}

\* the tank tables over the given domains, with cleaning times in D
TankTables(Doms, D) == UNION {[dom -> D] : dom \in Doms}

VARIABLES
    step_order, steps, tank_cleaning_time, bioreactor_days, num_of_bioreactors,
    pc, error, num_cycles, cycle, pipeline_times, shift, i,
    schedule, last_clean_end

inputs == <<step_order, steps, tank_cleaning_time, bioreactor_days,
            num_of_bioreactors>>
vars == <<step_order, steps, tank_cleaning_time, bioreactor_days,
          num_of_bioreactors, pc, error, num_cycles, cycle, pipeline_times,
          shift, i, schedule, last_clean_end>>

\* ----------------------------------------------------------------- helpers
Range(f) == {f[x] : x \in DOMAIN f}
Abs(x) == IF x < 0 THEN -x ELSE x
Max(a, b) == IF a >= b THEN a ELSE b
SetMin(S) == CHOOSE x \in S : \A y \in S : x <= y
SetMax(S) == CHOOSE x \in S : \A y \in S : x >= y

\* int(a / b) of Python: the quotient truncated toward zero (b # 0)
IntDiv(a, b) ==
    IF (a >= 0) = (b > 0) \/ a = 0
    THEN Abs(a) \div Abs(b)
    ELSE -(Abs(a) \div Abs(b))

\* setup + operation + cleaning of one step
StepDuration(info) == info.setup + info.operation + info.cleaning

\* min(step_durations.values())
MinStepDuration(stp) == SetMin({StepDuration(stp[s]) : s \in DOMAIN stp})

\* -------------------------------------------- step 1: the ideal pipeline
\* StepTimes with the setup placed after the predecessor's operation instead
\* of being back-solved from it
StepTimesSetupAfter(prev_op_end, info) ==
    LET setup_start == prev_op_end
        setup_end == setup_start + info.setup
        op_start == setup_end
        op_end == op_start + info.operation
        clean_start == op_end
        clean_end == clean_start + info.cleaning
    IN  [setup_start |-> setup_start, setup_end |-> setup_end,
         op_start |-> op_start, op_end |-> op_end,
         clean_start |-> clean_start, clean_end |-> clean_end]

\* the unshifted times of a step whose predecessor's operation ends at
\* prev_op_end
StepTimes(prev_op_end, info) ==
    LET setup_start == prev_op_end - info.setup
        setup_end == setup_start + info.setup
        op_start == setup_end
        op_end == op_start + info.operation
        clean_start == op_end
        clean_end == clean_start + info.cleaning
    IN  [setup_start |-> setup_start, setup_end |-> setup_end,
         op_start |-> op_start, op_end |-> op_end,
         clean_start |-> clean_start, clean_end |-> clean_end]

\* the pair <<pipeline_times, prev_op_end>> after the first k steps of order
RECURSIVE PipelineUpTo(_, _, _)
PipelineUpTo(order, stp, k) ==
    IF k = 0 THEN << << >>, 0 >>
    ELSE LET before == PipelineUpTo(order, stp, k - 1)
             times == StepTimes(before[2], stp[order[k]])
         IN  << (order[k] :> times) @@ before[1], times.op_end >>

PipelineTimes(order, stp) == PipelineUpTo(order, stp, Len(order))[1]

\* ------------------------------------------------ step 2: the cycle shift
\* RequiredShift measured from the end of the setup
RequiredShiftFromSetupEnd(lce, times) == Max(0, lce - times.setup_end)

\* max(0, last_clean_end[step] - pipeline_times[step]['setup_start'])
RequiredShift(lce, times) == Max(0, lce - times.setup_start)

\* ShiftUpTo with the comparison turned round: the smaller value is kept
RECURSIVE ShiftUpToSmaller(_, _, _, _)
ShiftUpToSmaller(order, lce, pt, k) ==
    IF k = 0 THEN 0
    ELSE LET sh == ShiftUpToSmaller(order, lce, pt, k - 1)
             required_shift == RequiredShift(lce[order[k]], pt[order[k]])
         IN  IF required_shift < sh THEN required_shift ELSE sh

\* ShiftUpTo that adds the required shifts up
RECURSIVE ShiftUpToSum(_, _, _, _)
ShiftUpToSum(order, lce, pt, k) ==
    IF k = 0 THEN 0
    ELSE LET sh == ShiftUpToSum(order, lce, pt, k - 1)
             required_shift == RequiredShift(lce[order[k]], pt[order[k]])
         IN  sh + required_shift

\* the shift after the first k steps of the order have been looked at
RECURSIVE ShiftUpTo(_, _, _, _)
ShiftUpTo(order, lce, pt, k) ==
    IF k = 0 THEN 0
    ELSE LET sh == ShiftUpTo(order, lce, pt, k - 1)
             required_shift == RequiredShift(lce[order[k]], pt[order[k]])
         IN  IF required_shift > sh THEN required_shift ELSE sh

CycleShift(order, lce, pt) == ShiftUpTo(order, lce, pt, Len(order))

\* ------------------------------------------- step 3: the emitted intervals
Interval(name, phase, c, start, end, row) ==
    [name |-> name, phase |-> phase, cycle |-> c,
     start |-> start, end |-> end, row |-> row]

\* the times of a step with the shift applied
Shifted(times, sh) ==
    [setup_start |-> times.setup_start + sh, setup_end |-> times.setup_end + sh,
     op_start |-> times.op_start + sh, op_end |-> times.op_end + sh,
     clean_start |-> times.clean_start + sh, clean_end |-> times.clean_end + sh]

\* the Setup, Operation and Cleaning intervals of a step
MainTasks(step, c, t) ==
    << Interval(step, "Setup", c, t.setup_start, t.setup_end, step),
       Interval(step, "Operation", c, t.op_start, t.op_end, step),
       Interval(step, "Cleaning", c, t.clean_start, t.clean_end, step) >>

\* the cleaning interval of one tank of a step
TankTask(tank, c, setup_start, table) ==
    LET t_start == setup_start
        t_end == t_start + table[tank]
    IN  Interval(tank, "Cleaning", c, t_start, t_end, tank)

\* TankTasks that walks the tank list backwards
TankTasksReversed(tanks, c, setup_start, table, k) ==
    [j \in 1..k |-> TankTask(tanks[k + 1 - j], c, setup_start, table)]

\* the tank intervals of the first k tanks of a step
TankTasks(tanks, c, setup_start, table, k) ==
    [j \in 1..k |-> TankTask(tanks[j], c, setup_start, table)]

\* the number of tanks of the list that are handled before the lookup
\* tank_cleaning_time[tank] fails: all of them when every tank is known
KnownPrefix(tanks, table) ==
    LET bad == {j \in 1..Len(tanks) : tanks[j] \notin DOMAIN table}
    IN  IF bad = {} THEN Len(tanks) ELSE SetMin(bad) - 1

\* everything one step appends to the schedule in one cycle, up to the
\* lookup of an unknown tank
StepTasks(step, info, c, times, sh, table) ==
    LET t == Shifted(times, sh)
    IN  MainTasks(step, c, t)
        \o TankTasks(info.tanks, c, t.setup_start, table,
                     KnownPrefix(info.tanks, table))

\* Emit that puts the new intervals in front
EmitInFront(sched, tasks) == tasks \o sched

\* schedule.append of a run of intervals
Emit(sched, tasks) == sched \o tasks

\* TrackerUpdate that stores the unshifted clean_end
TrackerUpdateUnshifted(lce, step, times, sh) ==
    [lce EXCEPT ![step] = times.clean_end]

\* last_clean_end[step] = clean_end
TrackerUpdate(lce, step, times, sh) ==
    [lce EXCEPT ![step] = Shifted(times, sh).clean_end]

\* last_clean_end = {s: 0.0 for s in step_order}
InitialTracker(order) == [s \in Range(order) |-> 0]

\* ------------------------------------------- the build as a function
\* <<schedule, last_clean_end>> after the first k steps of cycle c have been
\* scheduled, for a build in which every tank is known
RECURSIVE RunSteps(_, _, _, _, _, _, _, _)
RunSteps(order, stp, table, c, pt, sh, st, k) ==
    IF k = 0 THEN st
    ELSE LET before == RunSteps(order, stp, table, c, pt, sh, st, k - 1)
             step == order[k]
         IN  [schedule |-> Emit(before.schedule,
                                StepTasks(step, stp[step], c, pt[step], sh, table)),
              last_clean_end |-> TrackerUpdate(before.last_clean_end, step,
                                               pt[step], sh)]

\* <<schedule, last_clean_end>> after the cycles 1..n of the loop
RECURSIVE RunCycles(_, _, _, _)
RunCycles(order, stp, table, n) ==
    IF n <= 0
    THEN [schedule |-> << >>, last_clean_end |-> InitialTracker(order)]
    ELSE LET before == RunCycles(order, stp, table, n - 1)
             pt == PipelineTimes(order, stp)
             sh == CycleShift(order, before.last_clean_end, pt)
         IN  RunSteps(order, stp, table, n, pt, sh, before, Len(order))

\* ------------------------------------------------------------------- Init
Configs(D, TL, Tables) ==
    /\ step_order \in {SubSeq(StepNames, 1, n) : n \in 0..Len(StepNames)}
    /\ steps \in [Range(step_order) ->
                     [setup : D, operation : D, cleaning : D, tanks : TL]]
    /\ tank_cleaning_time \in Tables
    /\ bioreactor_days \in 0..MaxDays
    /\ num_of_bioreactors \in 1..MaxBioreactors

Start ==
    /\ pc = "start"
    /\ error = "none"
    /\ num_cycles = 0
    /\ cycle = 0
    /\ pipeline_times = << >>
    /\ shift = 0
    /\ i = 0
    /\ schedule = << >>
    /\ last_clean_end = << >>

\* every duration, a fixed tank list and a full tank table
Init ==
    /\ Configs(Durations, {<<"Tank2", "Tank1">>},
               {[t \in {"Tank1", "Tank2"} |->
                    IF t = "Tank1" THEN DurUnit ELSE 3 * DurUnit]})
    /\ Start

\* few durations, every tank list and tank table, unknown tanks among them
InitTanks ==
    /\ Configs(ShortDurations, {<< >>, <<"Tank1">>, <<"Tank2", "Tank1">>},
               TankTables({{"Tank1", "Tank2"}, {"Tank1"}},
                          {DurUnit, 3 * DurUnit}))
    /\ Start

\* negative durations among the inputs
InitSigned ==
    /\ Configs(SignedDurations, {<< >>, <<"Tank1">>},
               TankTables({{"Tank1"}}, SignedDurations))
    /\ Start

\* ---------------------------------------------------------------- actions
\* the cycle count, and the empty schedule and tracker
ComputeCycles ==
    /\ pc = "start"
    /\ IF step_order = << >>
       THEN \* min() of an empty sequence
            /\ pc' = "error"
            /\ error' = "ValueError"
            /\ UNCHANGED <<num_cycles, cycle, last_clean_end>>
       ELSE LET min_step_duration == MinStepDuration(steps)
                cadence == IntDiv(bioreactor_days, num_of_bioreactors)
            IN  IF min_step_duration = 0
                THEN /\ pc' = "error"
                     /\ error' = "ZeroDivisionError"
                     /\ UNCHANGED <<num_cycles, cycle, last_clean_end>>
                ELSE /\ num_cycles' =
                           IntDiv(cadence * HoursPerDay, min_step_duration)
                     /\ last_clean_end' = InitialTracker(step_order)
                     /\ cycle' = 1
                     /\ pc' = "cycle"
                     /\ error' = error
    /\ UNCHANGED <<inputs, pipeline_times, shift, i, schedule>>

\* step 1 of a cycle
BuildPipeline ==
    /\ pc = "cycle"
    /\ cycle <= num_cycles
    /\ pipeline_times' = PipelineTimes(step_order, steps)
    /\ pc' = "shift"
    /\ UNCHANGED <<inputs, error, num_cycles, cycle, shift, i, schedule,
                   last_clean_end>>

\* step 2 of a cycle
ResolveShift ==
    /\ pc = "shift"
    /\ shift' = CycleShift(step_order, last_clean_end, pipeline_times)
    /\ i' = 1
    /\ pc' = "emit"
    /\ UNCHANGED <<inputs, error, num_cycles, cycle, pipeline_times, schedule,
                   last_clean_end>>

\* step 3 of a cycle, for the step at place i of the order
ScheduleStep ==
    /\ pc = "emit"
    /\ LET step == step_order[i]
           info == steps[step]
       IN  /\ schedule' = Emit(schedule,
                               StepTasks(step, info, cycle, pipeline_times[step],
                                         shift, tank_cleaning_time))
           /\ IF KnownPrefix(info.tanks, tank_cleaning_time) < Len(info.tanks)
              THEN \* tank_cleaning_time[tank] of a tank that is not there
                   /\ pc' = "error"
                   /\ error' = "KeyError"
                   /\ UNCHANGED <<last_clean_end, i, cycle>>
              ELSE /\ last_clean_end' =
                         TrackerUpdate(last_clean_end, step,
                                       pipeline_times[step], shift)
                   /\ error' = error
                   /\ IF i < Len(step_order)
                      THEN /\ i' = i + 1
                           /\ pc' = "emit"
                           /\ cycle' = cycle
                      ELSE /\ i' = i
                           /\ pc' = "cycle"
                           /\ cycle' = cycle + 1
    /\ UNCHANGED <<inputs, num_cycles, pipeline_times, shift>>

\* the loop is over: the schedule is built
Finish ==
    /\ pc = "cycle"
    /\ cycle > num_cycles
    /\ pc' = "done"
    /\ UNCHANGED <<inputs, error, num_cycles, cycle, pipeline_times, shift, i,
                   schedule, last_clean_end>>

Next == ComputeCycles \/ BuildPipeline \/ ResolveShift \/ ScheduleStep \/ Finish

Spec == Init /\ [][Next]_vars
SpecTanks == InitTanks /\ [][Next]_vars
SpecSigned == InitSigned /\ [][Next]_vars

\* ============================================================ properties
\* the places of the schedule that hold the interval of a phase of a row in
\* a cycle
Places(row, phase, c) ==
    {k \in DOMAIN schedule :
        /\ schedule[k].row = row
        /\ schedule[k].phase = phase
        /\ schedule[k].cycle = c}
Emitted(row, phase, c) == Places(row, phase, c) # {}
TaskOf(row, phase, c) == schedule[CHOOSE k \in Places(row, phase, c) : TRUE]

StepSet == Range(step_order)
AllTanksKnown ==
    \A s \in StepSet : \A j \in DOMAIN steps[s].tanks :
        steps[s].tanks[j] \in DOMAIN tank_cleaning_time
MaxStepDuration == SetMax({StepDuration(steps[s]) : s \in StepSet})

\* the number of intervals the steps before place k of the order emit in a
\* cycle, and the number all steps emit
RECURSIVE Offset(_)
Offset(k) ==
    IF k <= 1 THEN 0
    ELSE Offset(k - 1) + 3 + Len(steps[step_order[k - 1]].tanks)
BlockLen == Offset(Len(step_order) + 1)

\* the function view and the step-by-step view of the loop agree
BuildAgrees ==
    (pc \in {"cycle", "done"} /\ AllTanksKnown) =>
        LET st == RunCycles(step_order, steps, tank_cleaning_time, cycle - 1)
        IN  schedule = st.schedule /\ last_clean_end = st.last_clean_end

\* C1 -- zero-idle adjacency: in every cycle, the Operation interval of a
\* step starts exactly where the Operation interval of the step before it in
\* the declared order ends.
ZeroIdleAdjacency ==
    \A c \in 1..num_cycles : \A k \in 1..(Len(step_order) - 1) :
        Emitted(step_order[k + 1], "Operation", c) =>
            TaskOf(step_order[k + 1], "Operation", c).start
                = TaskOf(step_order[k], "Operation", c).end

ZeroIdleWitness ==
    /\ pc = "done"
    /\ Len(step_order) = 2
    /\ num_cycles >= 2
    /\ steps["A"].operation > 0
    /\ steps["B"].setup > steps["A"].operation
    /\ TaskOf("B", "Operation", 2).start = TaskOf("A", "Operation", 2).end
    /\ TaskOf("B", "Setup", 2).start < TaskOf("A", "Operation", 2).start

\* C2 -- resource non-reuse: from the second cycle on, the Setup interval of
\* a step never starts before the Cleaning interval of the same step in the
\* cycle before has ended.
ResourceNonReuse ==
    \A s \in StepSet : \A c \in 2..num_cycles :
        Emitted(s, "Setup", c) =>
            TaskOf(s, "Setup", c).start >= TaskOf(s, "Cleaning", c - 1).end

ResourceNonReuseWitness ==
    /\ pc = "done"
    /\ num_cycles >= 2
    /\ Len(step_order) = 2
    /\ TaskOf("A", "Setup", 2).start = TaskOf("A", "Cleaning", 1).end
    /\ TaskOf("B", "Setup", 2).start > TaskOf("B", "Cleaning", 1).end
    /\ TaskOf("A", "Cleaning", 1).end > 0

\* C3 -- shift minimality: when cycle c > 1 has been scheduled with a shift
\* that is strictly positive, some step's Setup of cycle c starts exactly at
\* the end of its Cleaning of cycle c-1; the shift satisfies every step and
\* no smaller non-negative offset does.
ShiftMinimality ==
    (pc \in {"cycle", "done"} /\ cycle > 2) =>
        LET c == cycle - 1
            Slack(s) == TaskOf(s, "Setup", c).start
                            - TaskOf(s, "Cleaning", c - 1).end
        IN  /\ shift >= 0
            /\ \A s \in StepSet : Slack(s) >= 0
            /\ shift > 0 => \E s \in StepSet : Slack(s) = 0
            /\ \A d \in 0..(shift - 1) :
                  \E s \in StepSet : Slack(s) - shift + d < 0

ShiftMinimalityWitness ==
    /\ pc = "done"
    /\ cycle > 2
    /\ shift > 0
    /\ Len(step_order) = 2
    /\ TaskOf("B", "Setup", cycle - 1).start
          = TaskOf("B", "Cleaning", cycle - 2).end
    /\ TaskOf("A", "Setup", cycle - 1).start
          > TaskOf("A", "Cleaning", cycle - 2).end

\* two intervals of positive length that share more than an end point
Overlap(x, y) ==
    /\ x.start < x.end
    /\ y.start < y.end
    /\ x.start < y.end
    /\ y.start < x.end

UnknownReference == ~AllTanksKnown

\* C5 -- fail-fast validation: with a step that names a tank the tank table
\* does not hold, the build never ends normally and no interval is ever
\* emitted.
FailFastValidation ==
    UnknownReference => (pc # "done" /\ schedule = << >>)

NegativeDuration ==
    \/ \E s \in StepSet :
          steps[s].setup < 0 \/ steps[s].operation < 0 \/ steps[s].cleaning < 0
    \/ \E t \in DOMAIN tank_cleaning_time : tank_cleaning_time[t] < 0

\* C7 -- negative-duration rejection: with a negative duration in the input no
\* cycle is run, no interval is emitted and no schedule is produced.
NegativeDurationRejected ==
    NegativeDuration =>
        (pc \notin {"shift", "emit", "done"} /\ schedule = << >>)

\* C6 -- prefix stability: the schedule of a build with N cycles is the
\* leading segment of the schedule of the build with N + 1 cycles.
PrefixStability ==
    (pc = "done" /\ AllTanksKnown) =>
        LET longer == RunCycles(step_order, steps, tank_cleaning_time,
                                Max(num_cycles, 0) + 1).schedule
        IN  /\ Len(longer) = Len(schedule) + BlockLen
            /\ SubSeq(longer, 1, Len(schedule)) = schedule

PrefixStabilityWitness ==
    /\ pc = "done"
    /\ AllTanksKnown
    /\ num_cycles >= 2
    /\ Len(step_order) = 2
    /\ steps["A"].tanks # << >>
    /\ Len(schedule) = num_cycles * BlockLen

\* C8 -- output ordering: a finished build of N cycles holds N blocks in
\* cycle order; in a block the steps come in declared order, each with its
\* Setup, Operation and Cleaning interval and then one Cleaning interval per
\* tank in the order of the step's tank list.
OutputOrdering ==
    pc = "done" =>
        /\ Len(schedule) = num_cycles * BlockLen
        /\ \A c \in 1..num_cycles : \A k \in 1..Len(step_order) :
              LET step == step_order[k]
                  tanks == steps[step].tanks
                  base == (c - 1) * BlockLen + Offset(k)
                  Is(x, name, phase) ==
                      /\ x.name = name
                      /\ x.row = name
                      /\ x.phase = phase
                      /\ x.cycle = c
              IN  /\ Is(schedule[base + 1], step, "Setup")
                  /\ Is(schedule[base + 2], step, "Operation")
                  /\ Is(schedule[base + 3], step, "Cleaning")
                  /\ \A j \in 1..Len(tanks) :
                        Is(schedule[base + 3 + j], tanks[j], "Cleaning")

OutputOrderingWitness ==
    /\ pc = "done"
    /\ num_cycles >= 2
    /\ Len(step_order) = 2
    /\ steps["A"].tanks = <<"Tank2", "Tank1">>
    /\ steps["B"].tanks = <<"Tank1">>
    /\ Len(schedule) = num_cycles * 9
    /\ schedule[Len(schedule)].row = "Tank1"
    /\ schedule[Len(schedule)].cycle = num_cycles

\* C9 -- tracker monotonicity: last_clean_end is 0 for every step before
\* cycle 1; it changes only when a step is scheduled, in the entry of that
\* step alone, to the end of the Cleaning interval emitted for it; no entry
\* ever decreases.
TrackerMonotonic ==
    [][ /\ (pc = "start" /\ pc' = "cycle") =>
              \A s \in StepSet : last_clean_end'[s] = 0
        /\ pc # "start" =>
              /\ DOMAIN last_clean_end' = DOMAIN last_clean_end
              /\ \A s \in StepSet : last_clean_end'[s] >= last_clean_end[s]
        /\ (pc = "emit" /\ pc' # "error") =>
              LET x == schedule'[Len(schedule) + 3]
              IN  /\ x.row = step_order[i] /\ x.phase = "Cleaning"
                  /\ x.cycle = cycle
                  /\ last_clean_end'[step_order[i]] = x.end
                  /\ \A s \in StepSet \ {step_order[i]} :
                        last_clean_end'[s] = last_clean_end[s]
        /\ pc \notin {"start", "emit"} => last_clean_end' = last_clean_end
      ]_vars

TrackerMonotonicWitness ==
    /\ pc = "done"
    /\ num_cycles >= 2
    /\ Len(step_order) = 2
    /\ \A s \in StepSet :
          /\ last_clean_end[s] = TaskOf(s, "Cleaning", num_cycles).end
          /\ last_clean_end[s] > TaskOf(s, "Cleaning", 1).end
          /\ TaskOf(s, "Cleaning", 1).end > 0

\* an interval moved dt later and into the next cycle
Later(x, dt) ==
    [x EXCEPT !.start = @ + dt, !.end = @ + dt, !.cycle = @ + 1]

PeriodInSchedule ==
    /\ \A k \in DOMAIN schedule :
          schedule[k].cycle >= 2 =>
              /\ k > BlockLen
              /\ schedule[k] = Later(schedule[k - BlockLen], MaxStepDuration)
    /\ \A s \in StepSet : \A c \in 2..num_cycles :
          (Emitted(s, "Setup", c)
              /\ StepDuration(steps[s]) = MaxStepDuration) =>
              TaskOf(s, "Setup", c).start = TaskOf(s, "Cleaning", c - 1).end

\* C10 -- constant cycle period: the shift of every cycle after the first is
\* the shift of the cycle before plus the largest step duration; every
\* interval is the interval at the same place of the cycle before moved by
\* that much; a step of the largest duration starts its setup exactly when
\* its cleaning of the cycle before ends.
ConstantPeriod ==
    /\ [](PeriodInSchedule)
    /\ [][(pc = "shift" /\ cycle > 1) => shift' = shift + MaxStepDuration]_vars

ConstantPeriodWitness ==
    /\ pc = "done"
    /\ num_cycles >= 3
    /\ Len(step_order) = 2
    /\ StepDuration(steps["B"]) > StepDuration(steps["A"])
    /\ StepDuration(steps["A"]) > 0
    /\ TaskOf("A", "Setup", 3).start
          = TaskOf("A", "Setup", 2).start + StepDuration(steps["B"])
    /\ TaskOf("B", "Setup", 3).start = TaskOf("B", "Cleaning", 2).end
====
